---- MODULE Spec2Model ----
(***************************************************************************)
(* The reconnecting streaming-session client of docsearch-mvp: the         *)
(* StateManager (Session Store) and the WebSocketClient that drives it.    *)
(*                                                                         *)
(* One action models one handler or public method, run to completion       *)
(* (the host is single threaded; a handler is never interleaved with       *)
(* another).  Optional object fields are modelled by record domains: a     *)
(* field that is undefined in the code is absent from the record.          *)
(***************************************************************************)
EXTENDS Integers, Sequences, FiniteSets, TLC

VARIABLES
    currentSession,     \* StateManager.currentSession
    connectionState,    \* StateManager.connectionState
    now,                \* the host clock read by Date.now() / new Date()
    nextId,             \* number of ids generated so far (message and session ids)
    sockets,            \* the WebSocket objects the client created: id -> readyState
    ws,                 \* WebSocketClient.ws: 0 is null, else a socket id
    reconnectTimer,     \* WebSocketClient.reconnectTimer: 0 is null, else a timer id
    pingTimer,          \* WebSocketClient.pingTimer: 0 is null, else a timer id
    timeouts,           \* the host's pending setTimeout timers (ids)
    intervals,          \* the host's running setInterval timers (ids)
    reconnectAttempts,  \* WebSocketClient.reconnectAttempts
    isIntentionallyClosed, \* WebSocketClient.isIntentionallyClosed
    config,             \* WebSocketClient.config, fixed by the constructor
    obs,                \* what the last handler did: its name, result, emitted events
    stream,             \* history: the frames since the last typing_start
    hist,               \* history: disconnect() / give-up since the caller's connect(),
                        \* the retry counter the last onopen found, whether a
                        \* socket opened yet, and the connect() calls made by
                        \* the reconnect timer since the last open
    listeners           \* the subscriptions of StateManager.listeners and
                        \* WebSocketClient.listeners, in subscription order

storeVars == <<currentSession, connectionState, now, nextId>>
clientVars == <<sockets, ws, reconnectTimer, pingTimer, timeouts, intervals,
                reconnectAttempts, isIntentionallyClosed, config>>
vars == <<currentSession, connectionState, now, nextId, sockets, ws,
          reconnectTimer, pingTimer, timeouts, intervals, reconnectAttempts,
          isIntentionallyClosed, config, obs, stream, hist, listeners>>

(***************************************************************************)
(* Bounds of the model.                                                    *)
(***************************************************************************)
MaxMessages == 2        \* messages held by a session
MaxIds == 3             \* ids generated in a run
MaxChars == 3           \* characters held by a session's messages in total
MaxTime == 1            \* clock ticks
MaxSockets == 2         \* sockets alive (not yet CLOSED) at once
MaxTimers == 2          \* timers of one kind alive at once
MaxConfigAttempts == 2  \* largest configured maxReconnectAttempts
MaxListeners == 2       \* handlers subscribed at once
MaxCitations == 2       \* citations in a list handed to the CitationHandler

DefaultMaxReconnectAttempts == 5

Chars == {"a", "b"}

RECURSIVE SeqsUpTo(_)
SeqsUpTo(n) ==
    IF n = 0 THEN {<<>>}
    ELSE LET shorter == SeqsUpTo(n - 1)
         IN  shorter \cup {Append(s, c) : s \in {x \in shorter : Len(x) = n - 1}, c \in Chars}

Min(S) == CHOOSE x \in S : \A y \in S : x <= y

IsPrefix(s, t) == Len(s) <= Len(t) /\ SubSeq(t, 1, Len(s)) = s

(***************************************************************************)
(* Values.  A Date object and the ISO string JSON.stringify turns it into  *)
(* are different values holding the same instant.                          *)
(***************************************************************************)
DateOf(ms) == [kind |-> "Date", ms |-> ms]
IsoStringOf(ms) == [kind |-> "string", ms |-> ms]

\* {...a, ...b}: b's fields win, a's other fields are kept
Spread(a, b) ==
    [f \in (DOMAIN a) \cup (DOMAIN b) |-> IF f \in DOMAIN b THEN b[f] ELSE a[f]]

Has(r, f) == f \in DOMAIN r

NoEvents == <<>>

(***************************************************************************)
(* StateManager                                                            *)
(***************************************************************************)
\* generateSessionId / generateMessageId: 'msg_' + Date.now() + Math.random();
\* the random suffix is taken never to collide, so an id is the count of ids made
GenerateId(n) == n + 1

InitializeSession(id, t) ==
    [id |-> id, messages |-> <<>>, created_at |-> DateOf(t), updated_at |-> DateOf(t)]

\* findIndex(m => m.id === messageId): the first match, 0 for -1
FindIndex(messages, messageId) ==
    LET hits == {i \in 1..Len(messages) : Has(messages[i], "id") /\ messages[i].id = messageId}
    IN  IF hits = {} THEN 0 ELSE Min(hits)

\* addMessage: the session after the push, and the full message
FullMessage(message, id, t) ==
    Spread(message, [id |-> id, timestamp |-> DateOf(t)])

AddMessageSessionUnshift(session, message, id, t) ==
    [session EXCEPT !.messages = <<FullMessage(message, id, t)>> \o @,
                    !.updated_at = DateOf(t)]

AddMessageSession(session, message, id, t) ==
    [session EXCEPT !.messages = Append(@, FullMessage(message, id, t)),
                    !.updated_at = DateOf(t)]

\* updateMessage: the session after the replacement (unchanged when not found)
UpdateMessageSession(session, messageId, updates) ==
    LET i == FindIndex(session.messages, messageId)
    IN  IF i = 0 THEN session
        ELSE [session EXCEPT !.messages[i] = Spread(@, updates)]

\* if (messageIndex === -1) return null
UpdateMessageFoundAlways(session, messageId) == TRUE

UpdateMessageFound(session, messageId) == FindIndex(session.messages, messageId) # 0

UpdateMessageEvents(session, messageId) ==
    IF UpdateMessageFound(session, messageId) THEN <<"messageUpdated">> ELSE NoEvents

\* getMessages / getLastMessage
GetMessages(session) == session.messages

HasLastMessage(session) == Len(GetMessages(session)) > 0

GetLastMessage(session) == GetMessages(session)[Len(GetMessages(session))]

\* addCitationsToMessage
AddCitationsSession(session, messageId, citations) ==
    UpdateMessageSession(session, messageId, [citations |-> citations])

AddCitationsEventsAlways(session, messageId) == <<"messageUpdated", "citationsAdded">>

AddCitationsEvents(session, messageId) ==
    IF UpdateMessageFound(session, messageId)
    THEN <<"messageUpdated", "citationsAdded">> ELSE NoEvents

\* getAllCitations: messages.filter(m => m.citations).flatMap(m => m.citations)
RECURSIVE FlatCitations(_)
FlatCitations(messages) ==
    IF messages = <<>> THEN <<>>
    ELSE (IF Has(Head(messages), "citations") THEN Head(messages).citations ELSE <<>>)
            \o FlatCitations(Tail(messages))

\* .filter((citation, index, arr) => arr.findIndex(c => c.id === citation.id) === index)
KeepsOccurrenceLast(arr, index) ==
    \A k \in (index + 1)..Len(arr) : arr[k].id # arr[index].id

KeepsOccurrence(arr, index) ==
    \A k \in 1..(index - 1) : arr[k].id # arr[index].id

RECURSIVE FilterOccurrences(_, _)
FilterOccurrences(arr, index) ==
    IF index > Len(arr) THEN <<>>
    ELSE (IF KeepsOccurrence(arr, index) THEN <<arr[index]>> ELSE <<>>)
            \o FilterOccurrences(arr, index + 1)

GetAllCitations(session) == FilterOccurrences(FlatCitations(GetMessages(session)), 1)

\* setConnectionState: emit('connectionStateChanged', state); the event is
\* named together with the state it carries
ConnectionStates == {"connecting", "connected", "disconnected"}

ChangedEvent(state) ==
    CASE state = "connecting" -> "connectionStateChanged:connecting"
      [] state = "connected" -> "connectionStateChanged:connected"
      [] state = "disconnected" -> "connectionStateChanged:disconnected"

SetConnectionStateEventsAlways(old, state) == <<ChangedEvent(state)>>

SetConnectionStateEvents(old, state) ==
    IF old # state THEN <<ChangedEvent(state)>> ELSE NoEvents

(***************************************************************************)
(* exportSession / importSession.  JSON.stringify writes every Date as its *)
(* ISO string and keeps the other fields; JSON.parse reads the strings     *)
(* back as strings.  A document is either unparsable text or the parsed    *)
(* value.                                                                  *)
(***************************************************************************)
StringifyMessage(m) ==
    [f \in DOMAIN m |->
        IF f = "timestamp" /\ m[f].kind = "Date" THEN IsoStringOf(m[f].ms) ELSE m[f]]

\* an invalid Date (ms = -1) is written as null, which new Date() reads as 0
StringifyDate(d) ==
    IF d.kind = "Date"
    THEN (IF d.ms = -1 THEN [kind |-> "null", ms |-> 0] ELSE IsoStringOf(d.ms))
    ELSE d

ExportSession(session) ==
    [parsable |-> TRUE,
     value |-> [f \in DOMAIN session |->
        CASE f = "messages" ->
                [kind |-> "array",
                 items |-> [i \in 1..Len(session.messages) |->
                               StringifyMessage(session.messages[i])]]
          [] f \in {"created_at", "updated_at"} -> StringifyDate(session[f])
          [] OTHER -> session[f]]]

\* new Date(x): of an ISO string its instant; of undefined an invalid Date
NewDate(value, f) ==
    IF Has(value, f) THEN DateOf(value[f].ms) ELSE DateOf(-1)

\* the basic validation: session && session.id && Array.isArray(session.messages)
ImportValidWithoutArrayCheck(doc) ==
    /\ doc.parsable
    /\ Has(doc.value, "id")
    /\ doc.value.id # 0
    /\ Has(doc.value, "messages")

ImportValid(doc) ==
    /\ doc.parsable
    /\ Has(doc.value, "id")
    /\ doc.value.id # 0
    /\ Has(doc.value, "messages")
    /\ doc.value.messages.kind = "array"

ImportSessionWithoutMessages(session, doc) ==
    IF ImportValid(doc)
    THEN [id |-> doc.value.id, messages |-> <<>>,
          created_at |-> NewDate(doc.value, "created_at"),
          updated_at |-> NewDate(doc.value, "updated_at")]
    ELSE session

ImportSession(session, doc) ==
    IF ImportValid(doc)
    THEN Spread([f \in DOMAIN doc.value |->
                    IF f = "messages" THEN doc.value.messages.items ELSE doc.value[f]],
                [created_at |-> NewDate(doc.value, "created_at"),
                 updated_at |-> NewDate(doc.value, "updated_at")])
    ELSE session

(***************************************************************************)
(* Inbound frames.  A frame is the raw text of one socket message: either  *)
(* text JSON.parse rejects, or {type, data} where data may be missing.     *)
(***************************************************************************)
NoFields == [f \in {} |-> 0]

Unparsable == [parsable |-> FALSE, type |-> "", hasData |-> FALSE, data |-> NoFields]
Frame(type, data) == [parsable |-> TRUE, type |-> type, hasData |-> TRUE, data |-> data]
FrameNoData(type) == [parsable |-> TRUE, type |-> type, hasData |-> FALSE, data |-> NoFields]

Citation(id) == [id |-> id]
CitationLists == {<<Citation(1)>>, <<Citation(2), Citation(1)>>}

DeltaData == {NoFields} \cup {[content |-> c] : c \in SeqsUpTo(1)}
CompleteData == {NoFields, [content |-> <<>>], [content |-> <<"b">>]}
CitationsData(ids) ==
    {NoFields} \cup {[messageId |-> i, citations |-> c] : i \in ids, c \in CitationLists}
        \cup {[messageId |-> i] : i \in ids}

Frames(ids) ==
    {Unparsable}
    \cup {FrameNoData(t) : t \in {"typing_start", "message_delta", "message_complete",
                                   "citations", "error"}}
    \cup {Frame(t, NoFields) : t \in {"typing_start", "error", "session_start",
                                      "connection_status", "typing_stop"}}
    \cup {Frame("message_delta", d) : d \in DeltaData}
    \cup {Frame("message_complete", d) : d \in CompleteData}
    \cup {Frame("citations", d) : d \in CitationsData(ids)}

\* lastMessage.content || ''
ContentOr(m) == IF Has(m, "content") THEN m.content ELSE <<>>

\* handleMessageStart
StreamingPlaceholder ==
    [content |-> <<>>, role |-> "assistant", status |-> "streaming", isStreaming |-> TRUE]

HandleMessageStart(session, id, t) == AddMessageSession(session, StreamingPlaceholder, id, t)

\* handleMessageChunk: the guard on the last message
ChunkTarget(session) ==
    /\ HasLastMessage(session)
    /\ Has(GetLastMessage(session), "role")
    /\ GetLastMessage(session).role = "assistant"
    /\ Has(GetLastMessage(session), "isStreaming")
    /\ GetLastMessage(session).isStreaming = TRUE

ChunkContentPrepended(session, data) ==
    (IF Has(data, "content") THEN data.content ELSE <<>>) \o ContentOr(GetLastMessage(session))

ChunkContent(session, data) ==
    ContentOr(GetLastMessage(session)) \o (IF Has(data, "content") THEN data.content ELSE <<>>)

HandleMessageChunk(session, data) ==
    IF ChunkTarget(session)
    THEN UpdateMessageSession(session, GetLastMessage(session).id,
                              [content |-> ChunkContent(session, data), isStreaming |-> TRUE])
    ELSE session

\* handleMessageComplete: the guard on the last message
CompleteTarget(session) ==
    /\ HasLastMessage(session)
    /\ Has(GetLastMessage(session), "role")
    /\ GetLastMessage(session).role = "assistant"

CompleteUpdates(data) ==
    Spread([isStreaming |-> FALSE],
           IF Has(data, "content") /\ data.content # <<>>
           THEN [content |-> data.content] ELSE NoFields)

HandleMessageComplete(session, data) ==
    IF CompleteTarget(session)
    THEN UpdateMessageSession(session, GetLastMessage(session).id, CompleteUpdates(data))
    ELSE session

\* handleCitations
CitationsAccepted(data) ==
    Has(data, "messageId") /\ data.messageId # 0 /\ Has(data, "citations")

HandleCitations(session, data) ==
    IF CitationsAccepted(data)
    THEN AddCitationsSession(session, data.messageId, data.citations)
    ELSE session

\* a handler that reads a property of a missing data payload throws a
\* TypeError, which handleMessage's try/catch swallows
HandlerThrows(session, frame) ==
    /\ frame.parsable
    /\ ~frame.hasData
    /\ \/ frame.type = "message_delta" /\ ChunkTarget(session)
       \/ frame.type = "message_complete" /\ CompleteTarget(session)
       \/ frame.type = "citations"

\* handleMessage: the session after the frame
HandleMessage(session, frame, id, t) ==
    IF ~frame.parsable \/ HandlerThrows(session, frame) THEN session
    ELSE CASE frame.type = "typing_start" -> HandleMessageStart(session, id, t)
           [] frame.type = "message_delta" -> HandleMessageChunk(session, frame.data)
           [] frame.type = "message_complete" -> HandleMessageComplete(session, frame.data)
           [] frame.type = "citations" -> HandleCitations(session, frame.data)
           [] OTHER -> session

\* handleMessage: the events the store and the client emit for the frame
HandleMessageEvents(session, frame) ==
    IF ~frame.parsable \/ HandlerThrows(session, frame) THEN NoEvents
    ELSE (CASE frame.type = "typing_start" -> <<"messageAdded", "messageStart">>
            [] frame.type = "message_delta" ->
                 IF ChunkTarget(session)
                 THEN UpdateMessageEvents(session, GetLastMessage(session).id)
                        \o <<"messageChunk">>
                 ELSE NoEvents
            [] frame.type = "message_complete" ->
                 IF CompleteTarget(session)
                 THEN UpdateMessageEvents(session, GetLastMessage(session).id)
                        \o <<"messageComplete">>
                 ELSE NoEvents
            [] frame.type = "citations" ->
                 IF CitationsAccepted(frame.data)
                 THEN AddCitationsEvents(session, frame.data.messageId) \o <<"citations">>
                 ELSE NoEvents
            [] frame.type = "error" -> <<"serverError">>
            [] OTHER -> NoEvents)
         \o <<"message">>

(***************************************************************************)
(* WebSocketClient: sockets and timers.  A socket the client created keeps *)
(* the handlers connect() attached to it for its whole life, whether or    *)
(* not this.ws still points to it.  A CLOSED socket delivers no further    *)
(* event and is dropped from the model unless this.ws points to it.        *)
(***************************************************************************)
\* the constructor: config.maxReconnectAttempts || 5
EffectiveMax(configured) ==
    IF configured = 0 THEN DefaultMaxReconnectAttempts ELSE configured

Live(socks) == {s \in DOMAIN socks : socks[s] # "CLOSED"}

Prune(socks, current) ==
    [s \in {x \in DOMAIN socks : socks[x] # "CLOSED" \/ x = current} |-> socks[s]]

NewSocketId(socks) == Min({i \in 1..(Cardinality(DOMAIN socks) + 1) : i \notin DOMAIN socks})

TimerIdsInUse == timeouts \cup intervals \cup {reconnectTimer, pingTimer}

NewTimerId(used) == Min({i \in 1..(Cardinality(used) + 1) : i \notin used})

IsOpen(socks, s) == s # 0 /\ socks[s] = "OPEN"

\* cleanup(): clearTimeout / clearInterval of the tracked timers
CleanupTimeouts == timeouts \ {reconnectTimer}
CleanupIntervals == intervals \ {pingTimer}

(***************************************************************************)
(* emit(event, data) of both classes: the handlers subscribed to the event *)
(* are invoked in subscription order, each inside its own try/catch.  A    *)
(* subscription is [event, id, throws]: the handler `id` and whether it    *)
(* throws when invoked.                                                    *)
(***************************************************************************)
\* the name an event was emitted under
EventName(event) ==
    IF \E st \in ConnectionStates : event = ChangedEvent(st)
    THEN "connectionStateChanged" ELSE event

\* this.listeners.get(event)
Subscribed(subs, event) == SelectSeq(subs, LAMBDA l : l.event = EventName(event))

\* try { listener(data) } catch (error) { console.error(...) }
ListenerErrorEscapes == FALSE

ListenerErrorCaught == TRUE

\* eventListeners.forEach(...): the handlers invoked, and whether an
\* exception left the loop
RECURSIVE InvokeAll(_)
InvokeAll(handlers) ==
    IF handlers = <<>> THEN [invoked |-> <<>>, threw |-> FALSE]
    ELSE IF Head(handlers).throws /\ ~ListenerErrorCaught
         THEN [invoked |-> <<Head(handlers).id>>, threw |-> TRUE]
         ELSE [invoked |-> <<Head(handlers).id>> \o InvokeAll(Tail(handlers)).invoked,
               threw |-> InvokeAll(Tail(handlers)).threw]

\* the emit calls of one operation, in order; an exception that leaves an
\* emit ends the operation
RECURSIVE EmitAll(_, _)
EmitAll(subs, events) ==
    IF events = <<>> THEN [invoked |-> <<>>, threw |-> FALSE]
    ELSE IF InvokeAll(Subscribed(subs, Head(events))).threw
         THEN InvokeAll(Subscribed(subs, Head(events)))
         ELSE [invoked |-> InvokeAll(Subscribed(subs, Head(events))).invoked
                              \o EmitAll(subs, Tail(events)).invoked,
               threw |-> EmitAll(subs, Tail(events)).threw]

Observe(op, ret, events, sent, connects) ==
    [op |-> op, arg |-> 0, ret |-> ret, events |-> events, sent |-> sent,
     connects |-> connects, args |-> <<>>, result |-> <<>>,
     invoked |-> EmitAll(listeners, events).invoked,
     threw |-> EmitAll(listeners, events).threw]

ObserveCall(op, arg, ret, events) ==
    [op |-> op, arg |-> arg, ret |-> ret, events |-> events, sent |-> 0, connects |-> 0,
     args |-> <<>>, result |-> <<>>,
     invoked |-> EmitAll(listeners, events).invoked,
     threw |-> EmitAll(listeners, events).threw]

NoStream == [phase |-> "none", target |-> 0, concat |-> <<>>]

\* connect(): its effect on the client and on the connection state, after a
\* handler that already emitted `before`; `op` names the caller
ConnectBody(op, before) ==
    /\ isIntentionallyClosed' = FALSE
    /\ IF config.urlValid
       THEN /\ Cardinality(Live(sockets)) < MaxSockets
            /\ LET id == NewSocketId(Prune(sockets, 0))
               IN  /\ sockets' = (id :> "CONNECTING") @@ Prune(sockets, 0)
                   /\ ws' = id
            /\ connectionState' = "connecting"
            /\ obs' = Observe(op, "pending",
                              before \o SetConnectionStateEvents(connectionState, "connecting"),
                              0, 1)
       ELSE \* new WebSocket(url) throws: the catch block
            /\ UNCHANGED <<sockets, ws>>
            /\ connectionState' = "disconnected"
            /\ obs' = Observe(op, "rejected",
                              before \o SetConnectionStateEvents(connectionState, "connecting")
                                     \o SetConnectionStateEvents("connecting", "disconnected"),
                              0, 1)

\* connect() called by the application
Connect ==
    /\ ConnectBody("connect", NoEvents)
    /\ hist' = [hist EXCEPT !.disconnected = FALSE, !.gaveUp = FALSE]
    /\ stream' = NoStream
    /\ UNCHANGED <<currentSession, now, nextId, reconnectTimer, pingTimer, timeouts,
                   intervals, reconnectAttempts, config, listeners>>

\* ws.onopen: this.reconnectAttempts = 0
AttemptsAfterOpenKept == reconnectAttempts

AttemptsAfterOpen == 0

\* ws.onopen
OnOpen(s) ==
    /\ s \in DOMAIN sockets
    /\ sockets[s] = "CONNECTING"
    /\ Cardinality(intervals) < MaxTimers
    /\ sockets' = [sockets EXCEPT ![s] = "OPEN"]
    /\ connectionState' = "connected"
    /\ reconnectAttempts' = AttemptsAfterOpen
    /\ LET id == NewTimerId(TimerIdsInUse)         \* startPing()
       IN  /\ pingTimer' = id
           /\ intervals' = intervals \cup {id}
    /\ obs' = Observe("onopen", "void",
                      SetConnectionStateEvents(connectionState, "connected") \o <<"connected">>,
                      0, 0)
    /\ hist' = [hist EXCEPT !.attemptsAtOpen = reconnectAttempts, !.opened = TRUE,
                             !.autoConnects = 0]
    /\ stream' = NoStream
    /\ UNCHANGED <<currentSession, now, nextId, ws, reconnectTimer, timeouts,
                   isIntentionallyClosed, config, listeners>>

\* scheduleReconnect(): whether it gives up
GivesUp == reconnectAttempts >= config.maxReconnectAttempts

\* ws.onerror (when the connection failed) followed by ws.onclose; `failed`
\* tells whether the close is preceded by an error event
OnClose(s, failed) ==
    /\ s \in DOMAIN sockets
    /\ sockets[s] # "CLOSED"
    /\ sockets[s] = "CONNECTING" => failed
    /\ sockets' = Prune([sockets EXCEPT ![s] = "CLOSED"], ws)
    /\ connectionState' = "disconnected"
    /\ intervals' = CleanupIntervals                 \* cleanup()
    /\ pingTimer' = 0
    /\ IF isIntentionallyClosed \/ GivesUp
       THEN /\ timeouts' = CleanupTimeouts
            /\ reconnectTimer' = 0
            /\ UNCHANGED reconnectAttempts
       ELSE \* scheduleReconnect()
            /\ reconnectAttempts' = reconnectAttempts + 1
            /\ LET id == NewTimerId((TimerIdsInUse \ {reconnectTimer, pingTimer}) \cup {0})
               IN  /\ reconnectTimer' = id
                   /\ timeouts' = CleanupTimeouts \cup {id}
    /\ obs' = Observe("onclose", "void",
                      (IF failed THEN <<"error">> ELSE NoEvents)
                        \o SetConnectionStateEvents(connectionState, "disconnected")
                        \o <<"disconnected">>
                        \o (IF ~isIntentionallyClosed /\ GivesUp
                            THEN <<"maxReconnectAttemptsReached">> ELSE NoEvents),
                      0, 0)
    /\ hist' = [hist EXCEPT !.gaveUp = @ \/ (~isIntentionallyClosed /\ GivesUp)]
    /\ stream' = NoStream
    /\ UNCHANGED <<currentSession, now, nextId, ws, isIntentionallyClosed, config, listeners>>

\* the reconnect timer's callback
OnReconnectTimer(t) ==
    /\ t \in timeouts
    /\ timeouts' = timeouts \ {t}
    /\ IF ~isIntentionallyClosed
       THEN /\ ConnectBody("reconnectTimer", NoEvents)
            /\ hist' = [hist EXCEPT !.autoConnects = @ + 1]
       ELSE /\ obs' = Observe("reconnectTimer", "void", NoEvents, 0, 0)
            /\ UNCHANGED <<sockets, ws, connectionState, isIntentionallyClosed, hist>>
    /\ stream' = NoStream
    /\ UNCHANGED <<currentSession, now, nextId, reconnectTimer, pingTimer, intervals,
                   reconnectAttempts, config, listeners>>

\* disconnect(): this.isIntentionallyClosed = true
IntentAfterDisconnectKept == isIntentionallyClosed

IntentAfterDisconnect == TRUE

\* disconnect()
Disconnect ==
    /\ isIntentionallyClosed' = IntentAfterDisconnect
    /\ timeouts' = CleanupTimeouts                   \* cleanup()
    /\ reconnectTimer' = 0
    /\ intervals' = CleanupIntervals
    /\ pingTimer' = 0
    /\ sockets' = Prune(IF IsOpen(sockets, ws)
                        THEN [sockets EXCEPT ![ws] = "CLOSING"] ELSE sockets, 0)
    /\ ws' = 0
    /\ connectionState' = "disconnected"
    /\ obs' = Observe("disconnect", "void",
                      SetConnectionStateEvents(connectionState, "disconnected"), 0, 0)
    /\ hist' = [hist EXCEPT !.disconnected = TRUE]
    /\ stream' = NoStream
    /\ UNCHANGED <<currentSession, now, nextId, reconnectAttempts, config, listeners>>

\* sendMessage(type, data): whether the frame is written; `serializable`
\* tells whether JSON.stringify accepts the data
SendMessageWritesAnySocket(serializable) == ws # 0 /\ serializable

SendMessageWrites(serializable) == IsOpen(sockets, ws) /\ serializable

SendMessage(serializable) ==
    /\ obs' = Observe("sendMessage",
                      IF SendMessageWrites(serializable) THEN "true" ELSE "false",
                      NoEvents,
                      IF SendMessageWrites(serializable) THEN 1 ELSE 0, 0)
    /\ stream' = NoStream
    /\ UNCHANGED <<currentSession, connectionState, now, nextId, sockets, ws,
                   reconnectTimer, pingTimer, timeouts, intervals, reconnectAttempts,
                   isIntentionallyClosed, config, listeners, hist>>

\* the heartbeat interval's callback
OnPingTimer(t) ==
    /\ t \in intervals
    /\ obs' = Observe("pingTimer", "void", NoEvents,
                      IF IsOpen(sockets, ws) THEN 1 ELSE 0, 0)
    /\ stream' = NoStream
    /\ UNCHANGED <<currentSession, connectionState, now, nextId, sockets, ws,
                   reconnectTimer, pingTimer, timeouts, intervals, reconnectAttempts,
                   isIntentionallyClosed, config, listeners, hist>>

(***************************************************************************)
(* Frames delivered by a socket, and the store's public methods called by  *)
(* the application.                                                        *)
(***************************************************************************)
MessageIds(session) ==
    {session.messages[i].id : i \in 1..Len(session.messages)}

\* an id no message has
UnknownId == MaxIds + 10

RECURSIVE TotalChars(_)
TotalChars(messages) ==
    IF messages = <<>> THEN 0
    ELSE Len(ContentOr(Head(messages))) + TotalChars(Tail(messages))

ContentLengthsOk(session) == TotalChars(session.messages) <= MaxChars

\* the history of the current stream: the deltas since typing_start
StreamAfter(frame, newId) ==
    CASE frame.parsable /\ frame.type = "typing_start" ->
            [phase |-> "open", target |-> newId, concat |-> <<>>]
      [] frame.parsable /\ frame.type = "message_delta" /\ frame.hasData
            /\ stream.phase = "open" ->
            [stream EXCEPT !.concat = @ \o (IF Has(frame.data, "content")
                                            THEN frame.data.content ELSE <<>>)]
      [] frame.parsable /\ frame.type = "message_complete" /\ frame.hasData
            /\ ~Has(frame.data, "content") /\ stream.phase = "open" ->
            [stream EXCEPT !.phase = "completed"]
      [] OTHER -> NoStream

\* ws.onmessage of socket s; obs.ret holds the frame's type
OnMessage(s, frame) ==
    /\ s \in DOMAIN sockets
    /\ sockets[s] = "OPEN"
    /\ (frame.parsable /\ frame.type = "typing_start") =>
            (Len(currentSession.messages) < MaxMessages /\ nextId < MaxIds)
    /\ currentSession' = HandleMessage(currentSession, frame, GenerateId(nextId), now)
    /\ ContentLengthsOk(currentSession')
    /\ nextId' = IF frame.parsable /\ frame.type = "typing_start"
                 THEN GenerateId(nextId) ELSE nextId
    /\ obs' = ObserveCall("onmessage", 0, frame.type, HandleMessageEvents(currentSession, frame))
    /\ stream' = StreamAfter(frame, GenerateId(nextId))
    /\ UNCHANGED <<connectionState, now, sockets, ws, reconnectTimer, pingTimer, timeouts,
                   intervals, reconnectAttempts, isIntentionallyClosed, config, listeners, hist>>

\* addMessage(message)
Partials == {[role |-> "user", content |-> <<"a">>, status |-> "sent"]}

AddMessage(message) ==
    /\ Len(currentSession.messages) < MaxMessages
    /\ nextId < MaxIds
    /\ currentSession' = AddMessageSession(currentSession, message, GenerateId(nextId), now)
    /\ ContentLengthsOk(currentSession')
    /\ nextId' = GenerateId(nextId)
    /\ obs' = ObserveCall("addMessage", GenerateId(nextId), "message", <<"messageAdded">>)
    /\ stream' = NoStream
    /\ UNCHANGED <<connectionState, now, sockets, ws, reconnectTimer, pingTimer, timeouts,
                   intervals, reconnectAttempts, isIntentionallyClosed, config, listeners, hist>>

\* updateMessage(messageId, updates)
Updates == {[content |-> <<"b">>], [status |-> "error"]}

UpdateMessage(messageId, updates) ==
    /\ currentSession' = UpdateMessageSession(currentSession, messageId, updates)
    /\ ContentLengthsOk(currentSession')
    /\ obs' = ObserveCall("updateMessage", messageId,
                          IF UpdateMessageFound(currentSession, messageId)
                          THEN "message" ELSE "null",
                          UpdateMessageEvents(currentSession, messageId))
    /\ stream' = NoStream
    /\ UNCHANGED <<connectionState, now, nextId, sockets, ws, reconnectTimer, pingTimer,
                   timeouts, intervals, reconnectAttempts, isIntentionallyClosed, config, listeners,
                   hist>>

\* addCitationsToMessage(messageId, citations)
AddCitationsToMessage(messageId, citations) ==
    /\ currentSession' = AddCitationsSession(currentSession, messageId, citations)
    /\ obs' = ObserveCall("addCitationsToMessage", messageId, "void",
                          AddCitationsEvents(currentSession, messageId))
    /\ stream' = NoStream
    /\ UNCHANGED <<connectionState, now, nextId, sockets, ws, reconnectTimer, pingTimer,
                   timeouts, intervals, reconnectAttempts, isIntentionallyClosed, config, listeners,
                   hist>>

\* createNewSession()
CreateNewSession ==
    /\ nextId < MaxIds
    /\ currentSession' = InitializeSession(GenerateId(nextId), now)
    /\ nextId' = GenerateId(nextId)
    /\ obs' = ObserveCall("createNewSession", 0, "session", <<"sessionCreated">>)
    /\ stream' = NoStream
    /\ UNCHANGED <<connectionState, now, sockets, ws, reconnectTimer, pingTimer, timeouts,
                   intervals, reconnectAttempts, isIntentionallyClosed, config, listeners, hist>>

\* clearSession()
ClearSession ==
    /\ currentSession' = [currentSession EXCEPT !.messages = <<>>]
    /\ obs' = ObserveCall("clearSession", 0, "void", <<"sessionCleared">>)
    /\ stream' = NoStream
    /\ UNCHANGED <<connectionState, now, nextId, sockets, ws, reconnectTimer, pingTimer,
                   timeouts, intervals, reconnectAttempts, isIntentionallyClosed, config, listeners,
                   hist>>

\* getMessages() returns this.currentSession.messages itself (a fresh [] only
\* when there is no session) and getLastMessage() returns its last element
\* itself: what the caller does to the returned value is done to the store's
\* list.  The caller's mutations of the returned value:
CallerMessage == [id |-> UnknownId + 3, role |-> "user", content |-> <<>>, status |-> "sent",
                  timestamp |-> DateOf(0)]

Reverse(seq) == [i \in 1..Len(seq) |-> seq[Len(seq) + 1 - i]]

ListMutations == {"push", "pop", "reverse", "replace"}

MutateList(messages, mutation) ==
    CASE mutation = "push" -> Append(messages, CallerMessage)
      [] mutation = "pop" -> SubSeq(messages, 1, Len(messages) - 1)
      [] mutation = "reverse" -> Reverse(messages)
      [] mutation = "replace" -> [messages EXCEPT ![1] = CallerMessage]

\* the application calls getMessages() and mutates the array it got
GetMessagesAndMutate(mutation) ==
    /\ Len(GetMessages(currentSession)) > 0
    /\ mutation = "push" => Len(GetMessages(currentSession)) < MaxMessages
    /\ currentSession' = [currentSession EXCEPT !.messages = MutateList(@, mutation)]
    /\ obs' = ObserveCall("getMessages", 0, mutation, NoEvents)
    /\ stream' = NoStream
    /\ UNCHANGED <<connectionState, now, nextId, sockets, ws, reconnectTimer, pingTimer,
                   timeouts, intervals, reconnectAttempts, isIntentionallyClosed, config, listeners,
                   hist>>

\* the application calls getLastMessage() and assigns a field of the object it got
GetLastMessageAndMutate(updates) ==
    /\ HasLastMessage(currentSession)
    /\ currentSession' = [currentSession EXCEPT
            !.messages[Len(GetMessages(currentSession))] = Spread(@, updates)]
    /\ obs' = ObserveCall("getLastMessage", GetLastMessage(currentSession).id, "message",
                          NoEvents)
    /\ stream' = NoStream
    /\ UNCHANGED <<connectionState, now, nextId, sockets, ws, reconnectTimer, pingTimer,
                   timeouts, intervals, reconnectAttempts, isIntentionallyClosed, config, listeners,
                   hist>>

\* on(event, listener): Set.add of a handler not yet subscribed
ListenerIds(subs) == {subs[i].id : i \in 1..Len(subs)}

SubscribedEvents == {"messageAdded", "message"}

On(event, id, throws) ==
    /\ Len(listeners) < MaxListeners
    /\ id \notin ListenerIds(listeners)
    /\ listeners' = Append(listeners, [event |-> event, id |-> id, throws |-> throws])
    /\ obs' = ObserveCall("on", id, "void", NoEvents)
    /\ stream' = NoStream
    /\ UNCHANGED <<currentSession, connectionState, now, nextId, sockets, ws,
                   reconnectTimer, pingTimer, timeouts, intervals, reconnectAttempts,
                   isIntentionallyClosed, config, hist>>

\* off(event, listener): Set.delete
Off(id) ==
    /\ id \in ListenerIds(listeners)
    /\ listeners' = SelectSeq(listeners, LAMBDA l : l.id # id)
    /\ obs' = ObserveCall("off", id, "void", NoEvents)
    /\ stream' = NoStream
    /\ UNCHANGED <<currentSession, connectionState, now, nextId, sockets, ws,
                   reconnectTimer, pingTimer, timeouts, intervals, reconnectAttempts,
                   isIntentionallyClosed, config, hist>>

\* getAllCitations()
GetAllCitationsCall ==
    /\ obs' = [ObserveCall("getAllCitations", 0, "citations", NoEvents)
                    EXCEPT !.result = GetAllCitations(currentSession)]
    /\ stream' = NoStream
    /\ UNCHANGED <<currentSession, connectionState, now, nextId, sockets, ws,
                   reconnectTimer, pingTimer, timeouts, intervals, reconnectAttempts,
                   isIntentionallyClosed, config, hist, listeners>>

\* setConnectionState(state) called on the store directly
SetConnectionState(state) ==
    /\ connectionState' = state
    /\ obs' = ObserveCall("setConnectionState", 0, state,
                          SetConnectionStateEvents(connectionState, state))
    /\ stream' = NoStream
    /\ UNCHANGED <<currentSession, now, nextId, sockets, ws, reconnectTimer, pingTimer,
                   timeouts, intervals, reconnectAttempts, isIntentionallyClosed, config, listeners,
                   hist>>

\* the documents handed to importSession: the store's own export, documents
\* the validation rejects, and a valid document written elsewhere
ForeignMessage ==
    [id |-> UnknownId + 2, role |-> "assistant", content |-> <<"a">>,
     status |-> "completed", timestamp |-> IsoStringOf(0)]

ForeignDocs ==
    {[parsable |-> FALSE, value |-> NoFields],
     [parsable |-> TRUE, value |-> [messages |-> [kind |-> "array", items |-> <<>>]]],
     [parsable |-> TRUE, value |-> [id |-> 0, messages |-> [kind |-> "array", items |-> <<>>]]],
     [parsable |-> TRUE, value |-> [id |-> UnknownId + 1]],
     [parsable |-> TRUE, value |-> [id |-> UnknownId + 1,
                                    messages |-> [kind |-> "object", items |-> <<>>]]],
     [parsable |-> TRUE, value |-> [id |-> UnknownId + 1,
                                    messages |-> [kind |-> "array",
                                                  items |-> <<ForeignMessage>>]]]}

\* importSession(sessionData); arg 1 marks the store's own export
ImportSessionCall(doc) ==
    /\ currentSession' = ImportSession(currentSession, doc)
    /\ Len(currentSession'.messages) <= MaxMessages
    /\ ContentLengthsOk(currentSession')
    /\ obs' = ObserveCall("importSession",
                          IF doc = ExportSession(currentSession) THEN 1 ELSE 0,
                          IF ImportValid(doc) THEN "true" ELSE "false",
                          IF ImportValid(doc) THEN <<"sessionImported">> ELSE NoEvents)
    /\ stream' = NoStream
    /\ UNCHANGED <<connectionState, now, nextId, sockets, ws, reconnectTimer, pingTimer,
                   timeouts, intervals, reconnectAttempts, isIntentionallyClosed, config, listeners,
                   hist>>

\* the host clock advances
Tick ==
    /\ now < MaxTime
    /\ now' = now + 1
    /\ UNCHANGED <<currentSession, connectionState, nextId, sockets, ws, reconnectTimer,
                   pingTimer, timeouts, intervals, reconnectAttempts, isIntentionallyClosed,
                   config, listeners, obs, stream, hist>>

(***************************************************************************)
(* CitationHandler.  Its methods are functions of their arguments; the     *)
(* arguments and the result of a call are kept in obs.args and obs.result. *)
(***************************************************************************)
\* citation.relevance_score || 0
ScoreOf(citation) ==
    IF Has(citation, "relevance_score") THEN citation.relevance_score ELSE 0

\* Array.prototype.sort((a, b) => (b.relevance_score || 0) - (a.relevance_score || 0)):
\* a stable sort by descending score
RECURSIVE InsertByScore(_, _)
InsertByScore(sorted, citation) ==
    IF sorted = <<>> THEN <<citation>>
    ELSE IF ScoreOf(Head(sorted)) >= ScoreOf(citation)
         THEN <<Head(sorted)>> \o InsertByScore(Tail(sorted), citation)
         ELSE <<citation>> \o sorted

RECURSIVE SortByScore(_)
SortByScore(citations) ==
    IF citations = <<>> THEN <<>>
    ELSE InsertByScore(SortByScore(SubSeq(citations, 1, Len(citations) - 1)),
                       citations[Len(citations)])

\* the forEach that fills the Map: a group per key in first-seen order, each
\* citation pushed to its group and counted
GroupIndex(groups, key) ==
    LET hits == {i \in 1..Len(groups) : groups[i].source_file_id = key}
    IN  IF hits = {} THEN 0 ELSE Min(hits)

AddToGroupsOncePerId(groups, citation) ==
    LET i == GroupIndex(groups, citation.source_file_id)
    IN  IF i = 0
        THEN Append(groups, [source_file_id |-> citation.source_file_id,
                             citations |-> <<citation>>, total_chunks |-> 1])
        ELSE IF \E k \in 1..Len(groups[i].citations) : groups[i].citations[k].id = citation.id
             THEN [groups EXCEPT ![i].total_chunks = @ + 1]
             ELSE [groups EXCEPT ![i].citations = Append(@, citation),
                                 ![i].total_chunks = @ + 1]

AddToGroups(groups, citation) ==
    LET i == GroupIndex(groups, citation.source_file_id)
    IN  IF i = 0
        THEN Append(groups, [source_file_id |-> citation.source_file_id,
                             citations |-> <<citation>>, total_chunks |-> 1])
        ELSE [groups EXCEPT ![i].citations = Append(@, citation),
                            ![i].total_chunks = @ + 1]

RECURSIVE CollectGroups(_)
CollectGroups(citations) ==
    IF citations = <<>> THEN <<>>
    ELSE AddToGroups(CollectGroups(SubSeq(citations, 1, Len(citations) - 1)),
                     citations[Len(citations)])

\* Math.max(...group.citations.map(c => c.relevance_score || 0))
MaxRelevance(group) ==
    CHOOSE m \in {ScoreOf(group.citations[i]) : i \in 1..Len(group.citations)} :
        \A i \in 1..Len(group.citations) : ScoreOf(group.citations[i]) <= m

\* Array.from(groups.values()).sort((a, b) => maxRelevanceB - maxRelevanceA):
\* a stable sort of the groups by descending highest score
RECURSIVE InsertByMaxRelevance(_, _)
InsertByMaxRelevance(sorted, group) ==
    IF sorted = <<>> THEN <<group>>
    ELSE IF MaxRelevance(Head(sorted)) >= MaxRelevance(group)
         THEN <<Head(sorted)>> \o InsertByMaxRelevance(Tail(sorted), group)
         ELSE <<group>> \o sorted

RECURSIVE SortGroups(_)
SortGroups(groups) ==
    IF groups = <<>> THEN <<>>
    ELSE InsertByMaxRelevance(SortGroups(SubSeq(groups, 1, Len(groups) - 1)),
                              groups[Len(groups)])

GroupCitationsBySource(citations) ==
    SortGroups([i \in 1..Len(CollectGroups(citations)) |->
                    [CollectGroups(citations)[i] EXCEPT !.citations = SortByScore(@)]])

\* calculateContentSimilarity: a text is its words in order; toLowerCase()
\* and split(/\s+/) give the set of its lower-case words, and the empty text
\* gives the one word ""
ToLowerCase(word) == IF word = "X" THEN "x" ELSE word

WordSet(text) ==
    IF text = <<>> THEN {""} ELSE {ToLowerCase(text[i]) : i \in 1..Len(text)}

\* intersection.size / union.size > similarityThreshold, the threshold given
\* as the fraction num / den
SimilarityAtLeast(text1, text2, threshold) ==
    Cardinality(WordSet(text1) \cap WordSet(text2)) * threshold.den
        >= threshold.num * Cardinality(WordSet(text1) \cup WordSet(text2))

SimilarityAbove(text1, text2, threshold) ==
    Cardinality(WordSet(text1) \cap WordSet(text2)) * threshold.den
        > threshold.num * Cardinality(WordSet(text1) \cup WordSet(text2))

\* deduplicated.some(existing => similarity(citation, existing) > threshold)
IsDuplicateAtLeast(deduplicated, citation, threshold) ==
    \E i \in 1..Len(deduplicated) :
        SimilarityAtLeast(citation.content_snippet, deduplicated[i].content_snippet,
                          threshold)

IsDuplicate(deduplicated, citation, threshold) ==
    \E i \in 1..Len(deduplicated) :
        SimilarityAbove(citation.content_snippet, deduplicated[i].content_snippet, threshold)

RECURSIVE DeduplicateCitations(_, _)
DeduplicateCitations(citations, threshold) ==
    IF citations = <<>> THEN <<>>
    ELSE LET deduplicated ==
                DeduplicateCitations(SubSeq(citations, 1, Len(citations) - 1), threshold)
         IN  IF IsDuplicate(deduplicated, citations[Len(citations)], threshold)
             THEN deduplicated
             ELSE Append(deduplicated, citations[Len(citations)])

\* the arguments of the calls
RECURSIVE ListsUpTo(_, _)
ListsUpTo(S, n) ==
    IF n = 0 THEN {<<>>}
    ELSE ListsUpTo(S, n - 1)
            \cup {Append(l, x) : l \in {y \in ListsUpTo(S, n - 1) : Len(y) = n - 1}, x \in S}

SourcedCitations ==
    {[id |-> i, source_file_id |-> f] : i \in 1..2, f \in 1..2}
    \cup {[id |-> i, source_file_id |-> f, relevance_score |-> 1] : i \in 1..2, f \in 1..2}

Texts == {<<>>, <<"x">>, <<"X">>, <<"y", "X">>}

TextCitations == {[id |-> i, content_snippet |-> t] : i \in 1..2, t \in Texts}

\* 1/2 and the default 0.8
Thresholds == {[num |-> 1, den |-> 2], [num |-> 4, den |-> 5]}

\* groupCitationsBySource(citations)
GroupCitationsBySourceCall(citations) ==
    /\ obs' = [ObserveCall("groupCitationsBySource", 0, "groups", NoEvents)
                    EXCEPT !.args = <<citations>>,
                           !.result = GroupCitationsBySource(citations)]
    /\ stream' = NoStream
    /\ UNCHANGED <<currentSession, connectionState, now, nextId, sockets, ws,
                   reconnectTimer, pingTimer, timeouts, intervals, reconnectAttempts,
                   isIntentionallyClosed, config, hist, listeners>>

\* deduplicateCitations(citations, similarityThreshold)
DeduplicateCitationsCall(citations, threshold) ==
    /\ obs' = [ObserveCall("deduplicateCitations", 0, "citations", NoEvents)
                    EXCEPT !.args = <<citations, threshold>>,
                           !.result = DeduplicateCitations(citations, threshold)]
    /\ stream' = NoStream
    /\ UNCHANGED <<currentSession, connectionState, now, nextId, sockets, ws,
                   reconnectTimer, pingTimer, timeouts, intervals, reconnectAttempts,
                   isIntentionallyClosed, config, hist, listeners>>

CitationHandlerCall ==
    \/ \E c \in ListsUpTo(SourcedCitations, MaxCitations) : GroupCitationsBySourceCall(c)
    \/ \E c \in ListsUpTo(TextCitations, MaxCitations), t \in Thresholds :
            DeduplicateCitationsCall(c, t)

(***************************************************************************)
(* The state after StateManager.getInstance() and new WebSocketClient().   *)
(***************************************************************************)
Configs ==
    {[maxReconnectAttempts |-> EffectiveMax(m), urlValid |-> u] :
        m \in 0..MaxConfigAttempts, u \in BOOLEAN}

Init ==
    /\ currentSession = InitializeSession(GenerateId(0), 0)
    /\ connectionState = "disconnected"
    /\ now = 0
    /\ nextId = GenerateId(0)
    /\ sockets = <<>>
    /\ ws = 0
    /\ reconnectTimer = 0
    /\ pingTimer = 0
    /\ timeouts = {}
    /\ intervals = {}
    /\ reconnectAttempts = 0
    /\ isIntentionallyClosed = FALSE
    /\ config \in Configs
    /\ obs = Observe("constructor", "void", NoEvents, 0, 0)
    /\ stream = NoStream
    /\ hist = [disconnected |-> FALSE, gaveUp |-> FALSE, attemptsAtOpen |-> 0,
               opened |-> FALSE, autoConnects |-> 0]
    /\ listeners = <<>>

StoreCall ==
    \/ \E m \in Partials : AddMessage(m)
    \/ \E i \in MessageIds(currentSession) \cup {UnknownId}, u \in Updates :
            UpdateMessage(i, u)
    \/ \E i \in MessageIds(currentSession) \cup {UnknownId}, c \in CitationLists :
            AddCitationsToMessage(i, c)
    \/ CreateNewSession
    \/ ClearSession
    \/ \E d \in ForeignDocs \cup {ExportSession(currentSession)} : ImportSessionCall(d)
    \/ \E m \in ListMutations : GetMessagesAndMutate(m)
    \/ \E u \in Updates : GetLastMessageAndMutate(u)
    \/ \E st \in ConnectionStates : SetConnectionState(st)
    \/ GetAllCitationsCall

FrameArrives ==
    \E s \in DOMAIN sockets :
        \E f \in Frames(MessageIds(currentSession) \cup {UnknownId}) : OnMessage(s, f)

\* the frames of a streamed answer, a server error and a malformed frame
StreamFrames ==
    {Unparsable, Frame("typing_start", NoFields), Frame("error", NoFields),
     FrameNoData("message_delta"), FrameNoData("message_complete")}
    \cup {Frame("message_delta", d) : d \in DeltaData}
    \cup {Frame("message_complete", d) : d \in CompleteData}

StreamFrameArrives ==
    \E s \in DOMAIN sockets : \E f \in StreamFrames : OnMessage(s, f)

ClientCall ==
    \/ Connect
    \/ Disconnect
    \/ \E ok \in BOOLEAN : SendMessage(ok)

SocketEvent ==
    \/ \E s \in DOMAIN sockets : OnOpen(s)
    \/ \E s \in DOMAIN sockets, failed \in BOOLEAN : OnClose(s, failed)

TimerEvent ==
    \/ \E t \in timeouts : OnReconnectTimer(t)
    \/ \E t \in intervals : OnPingTimer(t)

Subscription ==
    \/ \E e \in SubscribedEvents, id \in 1..MaxListeners, throws \in BOOLEAN :
            On(e, id, throws)
    \/ \E id \in 1..MaxListeners : Off(id)

Next ==
    StoreCall \/ FrameArrives \/ ClientCall \/ SocketEvent \/ TimerEvent \/ Subscription
        \/ CitationHandlerCall \/ Tick

Spec == Init /\ [][Next]_vars

(***************************************************************************)
(* SpecSession: the Session Store under streamed answers.  The            *)
(* client is constructed with the default configuration, connects once and *)
(* its socket stays open; no handler of the store or of a frame reads the  *)
(* client's sockets, timers or retry state, so every run of Spec projects  *)
(* onto a run of SpecSession on the store's variables.                     *)
(***************************************************************************)
InitSession ==
    /\ Init
    /\ config = [maxReconnectAttempts |-> EffectiveMax(0), urlValid |-> TRUE]

ConnectOnce == sockets = <<>> /\ Connect

NextSession ==
    \/ \E m \in Partials : AddMessage(m)
    \/ \E i \in MessageIds(currentSession) \cup {UnknownId} :
            UpdateMessage(i, [status |-> "error"])
    \/ StreamFrameArrives
    \/ ConnectOnce
    \/ \E s \in DOMAIN sockets : OnOpen(s)

SpecSession == InitSession /\ [][NextSession]_vars

(***************************************************************************)
(* SpecStore: the Session Store's sessions: messages are added by the      *)
(* application and by streamed answers, citations are attached, and the    *)
(* session is cleared, replaced, exported and imported.                    *)
(***************************************************************************)
StoreFrames ==
    {Frame("typing_start", NoFields), Frame("message_complete", NoFields)}

NextStore ==
    \/ \E m \in Partials : AddMessage(m)
    \/ \E i \in MessageIds(currentSession) \cup {UnknownId}, c \in CitationLists :
            AddCitationsToMessage(i, c)
    \/ CreateNewSession
    \/ ClearSession
    \/ \E d \in ForeignDocs \cup {ExportSession(currentSession)} : ImportSessionCall(d)
    \/ \E s \in DOMAIN sockets : \E f \in StoreFrames : OnMessage(s, f)
    \/ ConnectOnce
    \/ \E s \in DOMAIN sockets : OnOpen(s)

SpecStore == InitSession /\ [][NextStore]_vars

(***************************************************************************)
(* SpecConnection: the connection life cycle.  The session holds no        *)
(* messages; the application calls connect(), disconnect() and             *)
(* sendMessage() at any time, sockets open, fail and close, timers fire.   *)
(***************************************************************************)
NextConnection == ClientCall \/ SocketEvent \/ TimerEvent

SpecConnection == Init /\ [][NextConnection]_vars

(***************************************************************************)
(* SpecConnectionState: the connection life cycle with setConnectionState  *)
(* also called on the store directly.                                      *)
(***************************************************************************)
NextConnectionState ==
    \/ Connect
    \/ Disconnect
    \/ SocketEvent
    \/ TimerEvent
    \/ \E st \in ConnectionStates : SetConnectionState(st)

\* one retry; the url is valid or not
InitConnectionState ==
    /\ Init
    /\ config.maxReconnectAttempts = EffectiveMax(1)

SpecConnectionState == InitConnectionState /\ [][NextConnectionState]_vars

(***************************************************************************)
(* SpecReconnect: the same life cycle under an application that calls      *)
(* connect() only while the connection state is disconnected (at start,    *)
(* after disconnect(), after a failure or a give-up).                      *)
(***************************************************************************)
ConnectWhenDisconnected == connectionState = "disconnected" /\ Connect

NextReconnect ==
    \/ ConnectWhenDisconnected
    \/ Disconnect
    \/ SocketEvent
    \/ TimerEvent

SpecReconnect == Init /\ [][NextReconnect]_vars

(***************************************************************************)
(* SpecMessages: messages are only added, by the application's addMessage  *)
(* calls and by the typing_start frames of an open socket, while the host  *)
(* clock advances.                                                         *)
(***************************************************************************)
CallPartials ==
    Partials \cup {[role |-> "assistant", content |-> <<>>, status |-> "sending"],
                   [role |-> "system", content |-> <<"b">>, status |-> "sent",
                    metadata |-> 1]}

NextMessages ==
    \/ \E m \in CallPartials : AddMessage(m)
    \/ \E s \in DOMAIN sockets : OnMessage(s, Frame("typing_start", NoFields))
    \/ ConnectOnce
    \/ \E s \in DOMAIN sockets : OnOpen(s)
    \/ Tick

SpecMessages == InitSession /\ [][NextMessages]_vars

(***************************************************************************)
(* SpecReaders: SpecMessages with an application that also reads the       *)
(* messages and writes to what the reads returned.                         *)
(***************************************************************************)
NextReaders ==
    \/ NextMessages
    \/ \E m \in ListMutations : GetMessagesAndMutate(m)
    \/ \E u \in Updates : GetLastMessageAndMutate(u)

SpecReaders == InitSession /\ [][NextReaders]_vars

(***************************************************************************)
(* SpecListeners: handlers subscribe to and unsubscribe from the store's   *)
(* messageAdded event and the client's message event while messages are    *)
(* added by the application and by typing_start frames.                    *)
(***************************************************************************)
NextListeners ==
    \/ Subscription
    \/ \E m \in Partials : AddMessage(m)
    \/ \E s \in DOMAIN sockets : OnMessage(s, Frame("typing_start", NoFields))
    \/ ConnectOnce
    \/ \E s \in DOMAIN sockets : OnOpen(s)

SpecListeners == InitSession /\ [][NextListeners]_vars

(***************************************************************************)
(* SpecFrames: every kind of inbound frame, well formed or not, arrives on *)
(* the open socket of a session that also receives the application's       *)
(* messages.                                                               *)
(***************************************************************************)
NextFrames ==
    \/ FrameArrives
    \/ \E m \in Partials : AddMessage(m)
    \/ ConnectOnce
    \/ \E s \in DOMAIN sockets : OnOpen(s)

SpecFrames == InitSession /\ [][NextFrames]_vars

(***************************************************************************)
(* SpecCitations: citations are attached to the messages of a session by   *)
(* the application and by the citations frames of an open socket, with ids *)
(* of messages the session holds and with an id it does not hold.          *)
(***************************************************************************)
NextCitations ==
    \/ \E m \in Partials : AddMessage(m)
    \/ \E i \in MessageIds(currentSession) \cup {UnknownId}, c \in CitationLists :
            AddCitationsToMessage(i, c)
    \/ \E s \in DOMAIN sockets :
            \E d \in CitationsData(MessageIds(currentSession) \cup {UnknownId}) :
                OnMessage(s, Frame("citations", d))
    \/ \E s \in DOMAIN sockets : OnMessage(s, Frame("typing_start", NoFields))
    \/ GetAllCitationsCall
    \/ ConnectOnce
    \/ \E s \in DOMAIN sockets : OnOpen(s)

SpecCitations == InitSession /\ [][NextCitations]_vars

(***************************************************************************)
(* SpecCitationHandler: the CitationHandler's grouping and de-duplication  *)
(* called with every list of up to MaxCitations citations.                 *)
(***************************************************************************)
SpecCitationHandler == InitSession /\ [][CitationHandlerCall]_vars

(***************************************************************************)
(* SpecUpdates: SpecMessages with an application that also updates the     *)
(* messages and attaches citations to them.                                *)
(***************************************************************************)
NextUpdates ==
    \/ NextMessages
    \/ \E i \in MessageIds(currentSession) \cup {UnknownId}, u \in Updates :
            UpdateMessage(i, u)
    \/ \E i \in MessageIds(currentSession) : AddCitationsToMessage(i, <<Citation(1)>>)

SpecUpdates == InitSession /\ [][NextUpdates]_vars

(***************************************************************************)
(* SpecPartialUpdates: the application adds messages and calls             *)
(* updateMessage with any Partial<Message>, which may carry an id or a     *)
(* timestamp, while the clock advances.                                    *)
(***************************************************************************)
PartialMessages ==
    Updates \cup {[id |-> i] : i \in 1..MaxIds}
            \cup {[timestamp |-> DateOf(t)] : t \in 0..MaxTime}

NextPartialUpdates ==
    \/ \E m \in Partials : AddMessage(m)
    \/ \E i \in MessageIds(currentSession) \cup {UnknownId}, u \in PartialMessages :
            UpdateMessage(i, u)
    \/ Tick

SpecPartialUpdates == InitSession /\ [][NextPartialUpdates]_vars

(***************************************************************************)
(* Claims about streamed answers (SpecSession).                            *)
(***************************************************************************)
Messages == currentSession.messages

StatusOf(m) == IF Has(m, "status") THEN m.status ELSE "undefined"

StreamingMessages == {i \in 1..Len(Messages) : StatusOf(Messages[i]) = "streaming"}

\* the message the last typing_start created
TargetIndex == FindIndex(Messages, stream.target)

\* C1: in every reachable state at most one message of the current session
\* has status=streaming.
C1_AtMostOneStreaming == Cardinality(StreamingMessages) <= 1

\* C2: after typing_start, any number of message_delta frames and a
\* message_complete frame without a content field, the message typing_start
\* created has status=completed.
C2_CompleteMarksCompleted ==
    stream.phase = "completed" =>
        /\ TargetIndex # 0
        /\ StatusOf(Messages[TargetIndex]) = "completed"

\* C3: frames are applied in arrival order: after typing_start and deltas
\* d1..dn with no other frame in between, the streaming message's content is
\* d1 \o ... \o dn, and a message_delta frame only ever extends a content.
C3_DeltasAppendInOrder ==
    [][/\ stream'.phase = "open" =>
            /\ FindIndex(currentSession'.messages, stream'.target) # 0
            /\ ContentOr(currentSession'.messages[
                    FindIndex(currentSession'.messages, stream'.target)]) = stream'.concat
       /\ (obs'.op = "onmessage" /\ obs'.ret = "message_delta") =>
            /\ Len(currentSession'.messages) = Len(Messages)
            /\ \A i \in 1..Len(Messages) :
                    IsPrefix(ContentOr(Messages[i]), ContentOr(currentSession'.messages[i]))
      ]_vars

C3_Witness ==
    /\ stream.phase = "open"
    /\ stream.concat = <<"b", "a">>
    /\ obs.op = "onmessage" /\ obs.ret = "message_delta"
    /\ TargetIndex = 2
    /\ ContentOr(Messages[TargetIndex]) = <<"b", "a">>

(***************************************************************************)
(* Claims about the connection life cycle (SpecConnection).                *)
(***************************************************************************)
\* the step runs handler `op` (Tick alone leaves obs as it was)
Ran(op) == obs'.op = op /\ now' = now

Emitted(o, event) == \E i \in 1..Len(o.events) : o.events[i] = event

\* C4: sendMessage called with no socket, or a socket that is not open,
\* returns false, writes nothing and leaves the Session Store unchanged.
C4_SendWhenNotOpen ==
    [][(Ran("sendMessage") /\ ~IsOpen(sockets, ws)) =>
            /\ obs'.ret = "false"
            /\ obs'.sent = 0
            /\ currentSession' = currentSession
            /\ connectionState' = connectionState
      ]_vars

C4_Witness ==
    /\ obs.op = "sendMessage"
    /\ obs.ret = "false"
    /\ ws # 0
    /\ sockets[ws] = "CONNECTING"

\* C5: once maxReconnectAttemptsReached was emitted, no second such event
\* and no automatic connect() follow until the caller calls connect().
C5_GiveUpIsTerminal ==
    [][(hist.gaveUp /\ ~Ran("connect")) =>
            /\ ~Emitted(obs', "maxReconnectAttemptsReached")
            /\ ~(Ran("reconnectTimer") /\ obs'.connects = 1)
      ]_vars


\* C6: whenever a socket opens the retry counter is reset to 0, also when
\* the open followed failed reconnect attempts, so the next unintentional
\* close schedules a reconnect again.
C6_OpenResetsRetries ==
    [][/\ Ran("onopen") => reconnectAttempts' = 0
       /\ (obs.op = "onopen" /\ Ran("onclose") /\ ~isIntentionallyClosed) =>
            (reconnectAttempts' = 1 /\ timeouts' # {})
      ]_vars

C6_Witness ==
    /\ obs.op = "onopen"
    /\ hist.attemptsAtOpen >= 1
    /\ reconnectAttempts = 0

\* C7: after disconnect(), and until the caller calls connect() again, no
\* automatic connect() is issued, neither by a reconnect timer that was
\* pending nor after a close event that arrives later.
C7_DisconnectSuppressesReconnect ==
    [][(hist.disconnected /\ ~Ran("connect")) =>
            /\ obs'.connects = 0
            /\ Ran("onclose") => timeouts' = {}
      ]_vars

C7_Witness ==
    /\ hist.disconnected
    /\ obs.op = "onclose"
    /\ reconnectAttempts < config.maxReconnectAttempts
    /\ timeouts = {}

\* C8: after disconnect() returns, and until the caller calls connect()
\* again, neither a heartbeat timer nor a reconnect timer of the client is
\* pending (so none fires and none is started).
C8_NoTimerAfterDisconnect ==
    hist.disconnected => (timeouts = {} /\ intervals = {})


(***************************************************************************)
(* Claims about the Session Store's methods.                               *)
(***************************************************************************)
\* C9: updateMessage with an id no message of the session has returns
\* null, emits no messageUpdated event and leaves the message list as it was.
C9_UpdateUnknownId ==
    [][(Ran("updateMessage") /\ FindIndex(Messages, obs'.arg) = 0) =>
            /\ obs'.ret = "null"
            /\ ~Emitted(obs', "messageUpdated")
            /\ currentSession'.messages = Messages
      ]_vars

C9_Witness ==
    /\ obs.op = "updateMessage"
    /\ obs.arg = UnknownId
    /\ obs.ret = "null"
    /\ Len(Messages) >= 2

FieldEq(a, b, f) == (Has(a, f) <=> Has(b, f)) /\ (Has(a, f) => a[f] = b[f])

SameMessage(a, b) == \A f \in {"id", "role", "content", "status", "citations"} : FieldEq(a, b, f)

\* C10: importSession(exportSession()) returns true and leaves the store
\* with the same session id and the same messages in the same order, each
\* with the same id, role, content, status and citations.
C10_ExportImportRoundTrip ==
    [][(Ran("importSession") /\ obs'.arg = 1) =>
            /\ obs'.ret = "true"
            /\ currentSession'.id = currentSession.id
            /\ Len(currentSession'.messages) = Len(Messages)
            /\ \A i \in 1..Len(Messages) : SameMessage(Messages[i], currentSession'.messages[i])
      ]_vars

C10_Witness ==
    /\ obs.op = "importSession"
    /\ obs.arg = 1
    /\ obs.ret = "true"
    /\ Len(Messages) = 2
    /\ \E i \in 1..Len(Messages) :
            Has(Messages[i], "citations") /\ StatusOf(Messages[i]) = "streaming"
    /\ \A i \in 1..Len(Messages) : Messages[i].timestamp.kind = "string"

\* the documents C11 is about: unparsable, without an id, or with a messages
\* field that is missing or not an array
Malformed(doc) ==
    \/ ~doc.parsable
    \/ ~Has(doc.value, "id")
    \/ ~Has(doc.value, "messages")
    \/ doc.value.messages.kind # "array"

\* C11: importSession on a document that is unparsable, lacks an id or whose
\* messages field is not an array returns false, emits no sessionImported
\* event and leaves the current session exactly as it was.
C11_ImportRejectsMalformed ==
    [][\A doc \in ForeignDocs :
            (Malformed(doc) /\ ImportSessionCall(doc)) =>
                /\ obs'.ret = "false"
                /\ ~Emitted(obs', "sessionImported")
                /\ currentSession' = currentSession
      ]_vars

C11_Witness ==
    /\ obs.op = "importSession"
    /\ obs.ret = "false"
    /\ obs.events = NoEvents
    /\ Len(Messages) = 2
    /\ \E i \in 1..Len(Messages) : Has(Messages[i], "citations")

\* timestamps never decrease along the list and no two messages share an id
OrderedAndDistinct(messages) ==
    \A i, j \in 1..Len(messages) :
        i < j => /\ messages[i].timestamp.ms <= messages[j].timestamp.ms
                 /\ messages[i].id # messages[j].id

C13_ReadsReturnCopies ==
    [][(Ran("getMessages") \/ Ran("getLastMessage")) =>
            currentSession'.messages = currentSession.messages
      ]_vars

\* the states carried by the connectionStateChanged events of a handler run
RECURSIVE CarriedStates(_)
CarriedStates(events) ==
    IF events = <<>> THEN <<>>
    ELSE (IF \E st \in ConnectionStates : Head(events) = ChangedEvent(st)
          THEN <<CHOOSE st \in ConnectionStates : Head(events) = ChangedEvent(st)>>
          ELSE <<>>) \o CarriedStates(Tail(events))

\* C14: setConnectionState(s) emits connectionStateChanged exactly when s
\* differs from the current connection state, and a call with the current
\* state changes nothing; in every handler run each connectionStateChanged
\* event carries a state other than the one in force before it (the state
\* the previous event carried), and the last one carries the state in force
\* afterwards, so two consecutive events never carry the same state.
C14_StateChangeEvents ==
    [][/\ Ran("setConnectionState") =>
            /\ connectionState' = obs'.ret
            /\ CarriedStates(obs'.events) =
                    (IF obs'.ret # connectionState THEN <<obs'.ret>> ELSE <<>>)
            /\ obs'.ret = connectionState =>
                    UNCHANGED <<currentSession, connectionState, sockets, ws, timeouts,
                                intervals, reconnectAttempts>>
       /\ (now' = now /\ obs'.op # "constructor") =>
            LET carried == <<connectionState>> \o CarriedStates(obs'.events)
            IN  /\ \A i \in 1..(Len(carried) - 1) : carried[i] # carried[i + 1]
                /\ carried[Len(carried)] = connectionState'
      ]_vars

C14_Witness ==
    /\ obs.op = "setConnectionState"
    /\ obs.ret = "connected"
    /\ obs.events = NoEvents
    /\ connectionState = "connected"
    /\ ws # 0
    /\ sockets[ws] = "OPEN"

\* the handlers subscribed to one of the events a handler run emitted
HandlersDue(subs, events) ==
    {subs[i].id : i \in {k \in 1..Len(subs) :
                            \E e \in 1..Len(events) : subs[k].event = EventName(events[e])}}

InvokedHandlers(o) == {o.invoked[i] : i \in 1..Len(o.invoked)}

\* C15: when an operation emits an event, no handler's exception leaves the
\* operation, every handler subscribed to the event is invoked, also the
\* ones subscribed after a handler that throws, and the message the
\* operation added stays in the list.
C15_ThrowingHandlerIsolated ==
    [][(now' = now /\ obs'.events # NoEvents) =>
            /\ ~obs'.threw
            /\ InvokedHandlers(obs') = HandlersDue(listeners, obs'.events)
            /\ (Ran("addMessage") \/ (Ran("onmessage") /\ obs'.ret = "typing_start")) =>
                    /\ Len(currentSession'.messages) = Len(Messages) + 1
                    /\ SubSeq(currentSession'.messages, 1, Len(Messages)) = Messages
      ]_vars

C15_Witness ==
    /\ obs.op = "addMessage"
    /\ Len(listeners) = 2
    /\ listeners[1].event = "messageAdded" /\ listeners[1].throws
    /\ listeners[2].event = "messageAdded" /\ ~listeners[2].throws
    /\ obs.invoked = <<listeners[1].id, listeners[2].id>>
    /\ Len(Messages) = 2

\* the streaming target: the most recent message with role=assistant and
\* status=streaming, 0 when there is none
StreamingTarget(messages) ==
    LET hits == {i \in 1..Len(messages) :
                    /\ Has(messages[i], "role") /\ messages[i].role = "assistant"
                    /\ StatusOf(messages[i]) = "streaming"}
    IN  IF hits = {} THEN 0 ELSE CHOOSE i \in hits : \A j \in hits : j <= i

DeltaContent(data) == IF Has(data, "content") THEN data.content ELSE <<>>

\* C16: whenever the session holds a streaming target, also when other
\* messages were added after it, a message_delta frame appends its
\* data.content to the target's content and changes no other message's
\* content.
C16_DeltaGoesToStreamingTarget ==
    [][\A s \in DOMAIN sockets, d \in DeltaData :
            (/\ StreamingTarget(Messages) # 0
             /\ OnMessage(s, Frame("message_delta", d))) =>
                /\ Len(currentSession'.messages) = Len(Messages)
                /\ \A i \in 1..Len(Messages) :
                        ContentOr(currentSession'.messages[i]) =
                            IF i = StreamingTarget(Messages)
                            THEN ContentOr(Messages[i]) \o DeltaContent(d)
                            ELSE ContentOr(Messages[i])
      ]_vars

\* the frames C17 is about: text that does not parse, a type the dispatch
\* does not know, and a known type without its data payload
MalformedFrames ==
    {Unparsable, Frame("typing_stop", NoFields), FrameNoData("typing_stop")}
    \cup {FrameNoData(t) : t \in {"typing_start", "message_delta", "message_complete",
                                   "citations", "error"}}

\* C17: a frame that does not parse, has an unknown type or lacks its data
\* payload is dropped: no exception leaves handleMessage, and the session's
\* messages and the connection state are as before.
C17_MalformedFrameDropped ==
    [][\A s \in DOMAIN sockets, f \in MalformedFrames :
            OnMessage(s, f) =>
                /\ ~obs'.threw
                /\ currentSession'.messages = Messages
                /\ connectionState' = connectionState
      ]_vars

\* C18: when the client's open socket closes and disconnect() was not
\* called, the connection state becomes disconnected, no heartbeat timer is
\* left running, a disconnected event is emitted and, while the retry budget
\* is not exhausted, exactly one reconnect timer is pending.
C18_UnexpectedCloseReconnects ==
    [][\A failed \in BOOLEAN :
            (/\ IsOpen(sockets, ws)
             /\ ~isIntentionallyClosed
             /\ OnClose(ws, failed)) =>
                /\ connectionState' = "disconnected"
                /\ intervals' = {}
                /\ Emitted(obs', "disconnected")
                /\ ~GivesUp => (Cardinality(timeouts') = 1 /\ reconnectTimer' \in timeouts')
      ]_vars

\* C19: a connect() whose socket fails to open, by the socket's error event
\* or by the constructor throwing, leaves the connection state disconnected
\* and, unless the client was intentionally closed (or the retry budget is
\* used up), a reconnect timer pending; the error event is emitted when the
\* socket reported one.
C19_FailedOpenRetries ==
    [][/\ (now' = now /\ obs'.connects = 1 /\ obs'.ret = "rejected") =>
            /\ connectionState' = "disconnected"
            /\ (~isIntentionallyClosed' /\ ~GivesUp) => reconnectTimer' \in timeouts'
       /\ \A s \in DOMAIN sockets :
            (sockets[s] = "CONNECTING" /\ OnClose(s, TRUE)) =>
                /\ Emitted(obs', "error")
                /\ connectionState' = "disconnected"
                /\ (~isIntentionallyClosed /\ ~GivesUp) => reconnectTimer' \in timeouts'
      ]_vars

\* C20: addCitationsToMessage emits citationsAdded only when a message with
\* the given id exists; with an id no message has, given by the caller or
\* by a citations frame, citationsAdded is not emitted and the message list
\* is as before.
C20_CitationsNeedTarget ==
    [][/\ Ran("addCitationsToMessage") =>
            /\ Emitted(obs', "citationsAdded") => FindIndex(Messages, obs'.arg) # 0
            /\ FindIndex(Messages, obs'.arg) = 0 => currentSession'.messages = Messages
       /\ \A s \in DOMAIN sockets, c \in CitationLists :
            OnMessage(s, Frame("citations", [messageId |-> UnknownId, citations |-> c])) =>
                /\ ~Emitted(obs', "citationsAdded")
                /\ currentSession'.messages = Messages
      ]_vars

C20_Witness ==
    /\ obs.op = "onmessage"
    /\ obs.ret = "citations"
    /\ obs.events = <<"citations", "message">>
    /\ Len(Messages) = 2
    /\ \E i \in 1..Len(Messages) : ~Has(Messages[i], "citations")

\* the places <<message, citation>> at which a citation id is attached, and
\* whether place p comes before place q in message order, then citation order
PlacesOf(messages, id) ==
    {p \in (1..Len(messages)) \X (1..Len(FlatCitations(messages))) :
        /\ Has(messages[p[1]], "citations")
        /\ p[2] <= Len(messages[p[1]].citations)
        /\ messages[p[1]].citations[p[2]].id = id}

PlaceBefore(p, q) == p[1] < q[1] \/ (p[1] = q[1] /\ p[2] < q[2])

FirstPlace(messages, id) ==
    CHOOSE p \in PlacesOf(messages, id) :
        \A q \in PlacesOf(messages, id) : p = q \/ PlaceBefore(p, q)

AttachedIds(messages) ==
    {id \in UNION {{l[k].id : k \in 1..Len(l)} : l \in CitationLists} :
        PlacesOf(messages, id) # {}}

\* C21: getAllCitations() returns pairwise distinct citation ids, exactly the
\* ids attached to some message, each as the citation of its first place in
\* message order then citation order, and in the order of those first places.
C21_AllCitationsFirstOccurrence ==
    [][Ran("getAllCitations") =>
            LET result == obs'.result
            IN  /\ \A a, b \in 1..Len(result) : a # b => result[a].id # result[b].id
                /\ {result[a].id : a \in 1..Len(result)} = AttachedIds(Messages)
                /\ \A a \in 1..Len(result) :
                        LET p == FirstPlace(Messages, result[a].id)
                        IN  result[a] = Messages[p[1]].citations[p[2]]
                /\ \A a, b \in 1..Len(result) :
                        a < b => PlaceBefore(FirstPlace(Messages, result[a].id),
                                             FirstPlace(Messages, result[b].id))
                /\ currentSession' = currentSession
      ]_vars

C21_Witness ==
    /\ obs.op = "getAllCitations"
    /\ Len(Messages) = 2
    /\ Has(Messages[1], "citations") /\ Messages[1].citations = <<Citation(1)>>
    /\ Has(Messages[2], "citations") /\ Messages[2].citations = <<Citation(2), Citation(1)>>
    /\ obs.result = <<Citation(1), Citation(2)>>

(***************************************************************************)
(* Claims about the CitationHandler (SpecCitationHandler).                 *)
(***************************************************************************)
SourcesOf(citations) == {citations[i].source_file_id : i \in 1..Len(citations)}

FirstSeen(citations, source) ==
    Min({i \in 1..Len(citations) : citations[i].source_file_id = source})

\* C22: groupCitationsBySource returns one group per distinct
\* source_file_id, the groups in the order in which their source first
\* appears in the input, and each group's citations by descending
\* relevance_score, an absent score counting as 0.
C22_GroupsInFirstSeenOrder ==
    [][Ran("groupCitationsBySource") =>
                LET citations == obs'.args[1]
                    groups == obs'.result
                IN  /\ Len(groups) = Cardinality(SourcesOf(citations))
                    /\ {groups[g].source_file_id : g \in 1..Len(groups)} = SourcesOf(citations)
                    /\ \A g, h \in 1..Len(groups) :
                            g < h => FirstSeen(citations, groups[g].source_file_id)
                                        < FirstSeen(citations, groups[h].source_file_id)
                    /\ \A g \in 1..Len(groups) :
                            \A a, b \in 1..Len(groups[g].citations) :
                                a < b => ScoreOf(groups[g].citations[a])
                                            >= ScoreOf(groups[g].citations[b])
      ]_vars

\* how often a citation id occurs in a list, and in the groups of a result
Occurrences(citations, id) ==
    Cardinality({i \in 1..Len(citations) : citations[i].id = id})

RECURSIVE OccurrencesInGroups(_, _)
OccurrencesInGroups(groups, id) ==
    IF groups = <<>> THEN 0
    ELSE Occurrences(Head(groups).citations, id) + OccurrencesInGroups(Tail(groups), id)

\* C23: the groups groupCitationsBySource returns hold, flattened, each
\* citation id exactly as often as the input does and every citation of a
\* group has the group's source; each group's total_chunks is the number of
\* its citations.
C23_GroupingKeepsCitations ==
    [][Ran("groupCitationsBySource") =>
                LET citations == obs'.args[1]
                    groups == obs'.result
                IN  /\ \A c \in SourcedCitations :
                            OccurrencesInGroups(groups, c.id) = Occurrences(citations, c.id)
                    /\ \A g \in 1..Len(groups) :
                            /\ groups[g].total_chunks = Len(groups[g].citations)
                            /\ \A k \in 1..Len(groups[g].citations) :
                                    groups[g].citations[k].source_file_id
                                        = groups[g].source_file_id
      ]_vars

C23_Witness ==
    /\ obs.op = "groupCitationsBySource"
    /\ Len(obs.result) = 1
    /\ obs.result[1].total_chunks = 2
    /\ obs.result[1].citations[1].id = obs.result[1].citations[2].id
    /\ ScoreOf(obs.result[1].citations[1]) > ScoreOf(obs.result[1].citations[2])

\* the citations of a list at the positions in K, in the list's order
RECURSIVE AtPositions(_, _, _)
AtPositions(citations, K, from) ==
    IF from > Len(citations) THEN <<>>
    ELSE (IF from \in K THEN <<citations[from]>> ELSE <<>>)
            \o AtPositions(citations, K, from + 1)

\* C24: deduplicateCitations applied to its own output returns that output;
\* the output is the input's citations at a set K of positions, in input
\* order, where a position is in K exactly when its citation's word-set
\* Jaccard similarity with no earlier citation of K is above the threshold.
C24_DeduplicateIdempotent ==
    [][Ran("deduplicateCitations") =>
            LET citations == obs'.args[1]
                threshold == obs'.args[2]
                survivors == obs'.result
            IN  /\ DeduplicateCitations(survivors, threshold) = survivors
                /\ \E K \in SUBSET (1..Len(citations)) :
                        /\ survivors = AtPositions(citations, K, 1)
                        /\ \A i \in 1..Len(citations) :
                                i \in K <=>
                                    ~\E j \in K :
                                        /\ j < i
                                        /\ SimilarityAbove(citations[i].content_snippet,
                                                           citations[j].content_snippet,
                                                           threshold)
      ]_vars

C24_Witness ==
    /\ obs.op = "deduplicateCitations"
    /\ Len(obs.args[1]) = 2
    /\ obs.args[1][1].content_snippet = <<"X">>
    /\ obs.args[1][2].content_snippet = <<"x">>
    /\ obs.args[1][1].id # obs.args[1][2].id
    /\ obs.result = <<obs.args[1][1]>>

\* C25: after every addMessage, successful updateMessage and successful
\* addCitationsToMessage the session's updated_at is at least the time of
\* the call and not earlier than it was.
C25_UpdatedAtBumped ==
    [][(\/ Ran("addMessage")
        \/ Ran("updateMessage") /\ obs'.ret = "message"
        \/ Ran("addCitationsToMessage") /\ Emitted(obs', "citationsAdded")) =>
            /\ currentSession'.updated_at.ms >= now
            /\ currentSession'.updated_at.ms >= currentSession.updated_at.ms
      ]_vars

\* C26: the retry counter always lies between 0 and the configured
\* maxReconnectAttempts, and between two successful opens the reconnect
\* timer calls connect() at most maxReconnectAttempts times.
C26_RetryBounded ==
    [][/\ reconnectAttempts' \in 0..config.maxReconnectAttempts
       /\ (Ran("onopen") /\ hist.opened) =>
              hist.autoConnects <= config.maxReconnectAttempts
      ]_vars

\* the client's current socket has delivered its open event and not yet its
\* close event
CurrentSocketOpen(socks, current) ==
    current \in DOMAIN socks /\ socks[current] \in {"OPEN", "CLOSING"}

\* C27: the connection state is connected exactly when the client's current
\* socket has opened and not closed, and an open or close event of a socket
\* that is not the current one changes neither the connection state nor the
\* timers nor the retry counter.
C27_StaleSocketEventsIgnored ==
    [][/\ connectionState' = "connected" <=> CurrentSocketOpen(sockets', ws')
       /\ \A s \in DOMAIN sockets :
              (s # ws /\ (OnOpen(s) \/ \E failed \in BOOLEAN : OnClose(s, failed))) =>
                  UNCHANGED <<connectionState, reconnectTimer, pingTimer, timeouts,
                              intervals, reconnectAttempts>>
      ]_vars

\* C28: the client has at most one live socket, at most one running
\* heartbeat timer and at most one pending reconnect timer, and every running
\* timer is the one the client tracks.
C28_SingleSocketAndTimers ==
    /\ Cardinality(Live(sockets)) <= 1
    /\ Cardinality(intervals) <= 1
    /\ Cardinality(timeouts) <= 1
    /\ intervals \subseteq {pingTimer}
    /\ timeouts \subseteq {reconnectTimer}

\* the last message is an assistant message that is streaming, by its
\* isStreaming flag or by its status
LastIsStreaming(messages) ==
    /\ messages # <<>>
    /\ Has(messages[Len(messages)], "role")
    /\ messages[Len(messages)].role = "assistant"
    /\ \/ StatusOf(messages[Len(messages)]) = "streaming"
       \/ /\ Has(messages[Len(messages)], "isStreaming")
          /\ messages[Len(messages)].isStreaming

\* C29: a message_complete frame that arrives while the last message is not
\* a streaming assistant message leaves the content and the status of every
\* message unchanged, whatever the frame carries.
C29_CompleteNeedsStreamingTarget ==
    [][\A s \in DOMAIN sockets, d \in CompleteData :
          (~LastIsStreaming(Messages) /\ OnMessage(s, Frame("message_complete", d))) =>
              /\ Len(Messages') = Len(Messages)
              /\ \A i \in 1..Len(Messages) :
                     /\ FieldEq(Messages'[i], Messages[i], "content")
                     /\ FieldEq(Messages'[i], Messages[i], "status")
      ]_vars

DistinctIds(messages) ==
    \A i, j \in 1..Len(messages) : i # j => messages[i].id # messages[j].id

\* C30: updateMessage on an existing id keeps the number and order of the
\* messages and every other message, changes on the target only the fields
\* the updates carry, keeps the target's id and timestamp, and after every
\* addMessage and updateMessage the message ids are pairwise distinct.
C30_UpdateTouchesOnlyTarget ==
    [][/\ DistinctIds(Messages')
       /\ \A id \in MessageIds(currentSession), u \in PartialMessages :
              UpdateMessage(id, u) =>
                  LET k == FindIndex(Messages, id)
                  IN  /\ Len(Messages') = Len(Messages)
                      /\ \A i \in 1..Len(Messages) : i # k => Messages'[i] = Messages[i]
                      /\ Messages'[k].id = Messages[k].id
                      /\ Messages'[k].timestamp = Messages[k].timestamp
                      /\ \A f \in (DOMAIN Messages[k] \cup DOMAIN Messages'[k]) \ DOMAIN u :
                             FieldEq(Messages'[k], Messages[k], f)
      ]_vars

====
